---- MODULE Spec2Model ----
(***************************************************************************)
(* A model of sites.py: the site/SSL check loop (check_sites), the CI-mode *)
(* state store handling and notification decision of the main program, and *)
(* the two notification senders.  One run of the script is one behaviour:  *)
(* the command-line flags, the stored result of the previous run and every *)
(* answer of the network are inputs.                                       *)
(***************************************************************************)
EXTENDS Integers, Sequences, FiniteSets, TLC

(* ---------------------------------------------------------------------- *)
(* Configuration data of check_sites                                      *)
(* ---------------------------------------------------------------------- *)

\* How many entries of the server list a run of the model walks through.
MaxServers == 3

\* The server table, in the order of the source.
AllServers ==
    << [url |-> "http://www.readthedocs.org/", code |-> 302, redirect |-> "http://readthedocs.org/"],
       [url |-> "http://readthedocs.org/", code |-> 302, redirect |-> "https://readthedocs.org/"],
       [url |-> "https://readthedocs.org/", code |-> 200, contents |-> "Technical documentation lives here"],
       [url |-> "http://www.python.org/", code |-> 301, redirect |-> "https://www.python.org/"],
       [url |-> "http://python.org/", code |-> 301, redirect |-> "https://python.org/"],
       [url |-> "https://www.python.org/", code |-> 200, contents |-> "official home of the Python Programming Language"],
       [url |-> "http://thunderbird.net/", code |-> 301, redirect |-> "https://thunderbird.net/"],
       [url |-> "http://www.thunderbird.net/", code |-> 301, redirect |-> "https://www.thunderbird.net/"],
       [url |-> "https://www.thunderbird.net/en-US/", code |-> 200, contents |-> "Software made to make email easier"] >>

servers == SubSeq(AllServers, 1, IF MaxServers < Len(AllServers) THEN MaxServers ELSE Len(AllServers))

ssl_hosts == << "readthedocs.org", "www.python.org", "www.thunderbird.net" >>

(* ---------------------------------------------------------------------- *)
(* Python values                                                          *)
(* ---------------------------------------------------------------------- *)

\* Python's None, for the variables that hold an object or nothing.
None == [none |-> TRUE]

\* datetime.timedelta, normalised as Python stores it: days may be negative,
\* 0 <= seconds < 86400.  The unit of time of the model is the second.
timedelta(total) == [days |-> total \div 86400, seconds |-> total % 86400]

\* timedelta.__lt__: comparison of the normalised (days, seconds) pairs.
td_lt(a, b) == \/ a.days < b.days
               \/ a.days = b.days /\ a.seconds < b.seconds

\* re.findall(pattern, text) on a text given as its sequence of fragments:
\* the list of the fragments the pattern matches.
findall(pattern, text) == SelectSeq(text, LAMBDA f : f = pattern)

(* ---------------------------------------------------------------------- *)
(* The error strings of check_sites                                       *)
(* ---------------------------------------------------------------------- *)

FmtException(s, e) == "Fail: " \o s.url \o " exception " \o e

FmtCode(s, received) ==
    "Fail: " \o s.url \o " expected response code " \o ToString(s.code)
             \o " received " \o ToString(received)

FmtRedirect(s, location) ==
    "Fail: " \o s.url \o " expected redirect " \o s.redirect \o " received " \o location

FmtContents(s) == "Fail: " \o s.url \o " expected contents " \o s.contents

FmtExpired(host) == "Fail: SSL cert for " \o host \o " already expired!"

FmtExpiring(host, days) ==
    "Fail: SSL cert for " \o host \o " expiring in " \o ToString(days) \o " days"

(* ---------------------------------------------------------------------- *)
(* Inputs: what the network and the clock may answer                      *)
(* ---------------------------------------------------------------------- *)

StatusCodes == {200, 301, 302}

\* str(e) of a requests.exceptions.RequestException.
RequestExceptions ==
    { "HTTPConnectionPool(host='readthedocs.org', port=80): Max retries exceeded with url: / (Caused by NewConnectionError('<urllib3.connection.HTTPConnection object at 0x7f3c5a>: Failed to establish a new connection: [Errno 111] Connection refused'))" }

OtherLocation == "https://example.com/"

NoHeaders == [h \in {} |-> ""]

\* The Location values a server may send for s.
Locations(s) == {OtherLocation} \cup (IF s.code \in {301, 302} THEN {s.redirect} ELSE {})

\* The responses requests.head(s.url) may return: a redirect status carries a
\* Location header or none, any other status none.
HeadResponses(s) ==
    { [status_code |-> c, headers |-> NoHeaders] : c \in StatusCodes }
    \cup { [status_code |-> c, headers |-> [h \in {"Location"} |-> l]] :
             c \in StatusCodes \cap {301, 302}, l \in Locations(s) }

\* The bodies a GET of s.url may carry: text fragments, or bytes that are
\* not UTF-8.
Bodies(s) ==
    { [utf8 |-> TRUE, text |-> t] :
        t \in { <<>>, <<"Welcome">>, <<s.contents>>, <<"Welcome", s.contents, s.contents>> } }
    \cup { [utf8 |-> FALSE, text |-> <<>>] }

GetResponses(s) ==
    { [status_code |-> 200, content |-> b] : b \in Bodies(s) }
    \cup { [status_code |-> 503, content |-> [utf8 |-> TRUE, text |-> <<>>]] }

\* The clock reading of the run and the certificate expiry times a host may
\* present, in seconds since the epoch: one second before the reading, the
\* reading itself, and one second before and exactly three days after it.
Clock == {1700000000}
Expiries == {1699999999, 1700000000, 1700259199, 1700259200}

\* What makes ssl_expiry_datetime raise.
SslExceptions == {"socket.timeout", "ValueError"}

VARIABLES
    pc,          \* where the script is
    ci,          \* args.ci
    delete,      \* args.delete
    store,       \* the object stored under 'sitecheck-data', or None
    i,           \* position of the server loop (index of the next entry)
    j,           \* position of the ssl_hosts loop
    errors,      \* check_sites' errors, then the main program's
    r,           \* check_sites' r: the last HEAD response
    r2,          \* check_sites' r2: the last GET response
    remaining,   \* check_sites' remaining
    probed,      \* the targets whose check was started, in order
    rc,          \* the main program's rc
    last,        \* the main program's last
    msg,         \* the main program's msg
    k,           \* position of the message loop of the running sender
    storeLog,    \* the calls made on the state store, in order
    smsCalls,    \* the bodies handed to client.messages.create, in order
    slackCalls,  \* the texts handed to requests.post, in order
    exc,         \* the exception that ended the run, or "none"
    exitCode     \* the process exit status, once pc is "done" or "crashed"

vars == << pc, ci, delete, store, i, j, errors, r, r2, remaining, probed, rc,
           last, msg, k, storeLog, smsCalls, slackCalls, exc, exitCode >>

SiteTarget(n) == [kind |-> "site", idx |-> n]
SslTarget(n) == [kind |-> "ssl", idx |-> n]

\* The objects a previous run may have left in the store.
StoredResults ==
    { None,
      [lastRun |-> 1699996400, version |-> 1, results |-> 0, errors |-> <<>>],
      [lastRun |-> 1699996400, version |-> 1, results |-> 2,
       errors |-> << FmtExpired(ssl_hosts[1]), FmtExpired(ssl_hosts[2]) >>] }

Init ==
    /\ pc = "sites"
    /\ ci \in BOOLEAN
    /\ delete \in BOOLEAN
    /\ store \in StoredResults
    /\ i = 1
    /\ j = 1
    /\ errors = <<>>
    /\ r = None
    /\ r2 = None
    /\ remaining = None
    /\ probed = <<>>
    /\ rc = 0
    /\ last = None
    /\ msg = <<>>
    /\ k = 1
    /\ storeLog = <<>>
    /\ smsCalls = <<>>
    /\ slackCalls = <<>>
    /\ exc = "none"
    /\ exitCode = 0

\* An exception nobody catches: the interpreter prints the traceback and the
\* process ends with status 1.
Crash(e) ==
    /\ pc' = "crashed"
    /\ exc' = e
    /\ exitCode' = 1

\* A faulty errors.append: the new entry is put in front.
AppendError_Prepend(errs, e) == << e >> \o errs

\* errors.append(e)
AppendError(errs, e) == Append(errs, e)

(* ---------------------------------------------------------------------- *)
(* check_sites: the server loop                                           *)
(* ---------------------------------------------------------------------- *)

\* The loop goes on with the next entry, or is over after the last one.
NextServer ==
    /\ i' = i + 1
    /\ pc' = IF i < Len(servers) THEN "sites" ELSE "ssl"
    /\ UNCHANGED << exc, exitCode >>

\* The status code is not the expected one.
CodeMismatch(s, resp) == resp.status_code # s.code

\* A faulty redirect check: the Location header is never compared.
RedirectErrors_Unchecked(s, resp, errs) == errs

\* The errors after the redirect check of a 301/302 answer.
RedirectErrors(s, resp, errs) ==
    IF resp.headers["Location"] # s.redirect
    THEN AppendError(errs, FmtRedirect(s, resp.headers["Location"]))
    ELSE errs

\* The errors after the contents check of a GET answer.
ContentErrors(s, resp2, errs) ==
    LET matches == findall(s.contents, resp2.content.text)
    IN  IF matches = <<>> THEN AppendError(errs, FmtContents(s)) ELSE errs

\* A faulty GET check: no status of the GET is taken as a failure.
GetFails_Never(resp2) == FALSE

\* The follow-up GET did not answer 200.
GetFails(resp2) == resp2.status_code # 200

\* requests.head raises: the error is recorded and `break` leaves the loop.
HeadRaises(s) ==
    /\ \E e \in RequestExceptions : errors' = AppendError(errors, FmtException(s, e))
    /\ pc' = "ssl"
    /\ UNCHANGED << i, r, r2, exc, exitCode >>

\* requests.head returns resp.
HeadReturns(s, resp) ==
    /\ r' = resp
    /\ \/ /\ CodeMismatch(s, resp)
          /\ errors' = AppendError(errors, FmtCode(s, resp.status_code))
          /\ NextServer
          /\ UNCHANGED r2
       \/ /\ ~CodeMismatch(s, resp)
          /\ resp.status_code = 301 \/ resp.status_code = 302
          /\ "Location" \in DOMAIN resp.headers
          /\ errors' = RedirectErrors(s, resp, errors)
          /\ NextServer
          /\ UNCHANGED r2
       \/ \* r.headers['Location'] of an answer without the header
          /\ ~CodeMismatch(s, resp)
          /\ resp.status_code = 301 \/ resp.status_code = 302
          /\ "Location" \notin DOMAIN resp.headers
          /\ Crash("KeyError")
          /\ UNCHANGED << i, errors, r2 >>
       \/ /\ ~CodeMismatch(s, resp)
          /\ resp.status_code = 200
          /\ \E resp2 \in GetResponses(s) :
               /\ r2' = resp2
               /\ IF GetFails(resp2)
                  THEN Crash("Exception") /\ UNCHANGED << i, errors >>
                  ELSE IF ~resp2.content.utf8
                  THEN Crash("UnicodeDecodeError") /\ UNCHANGED << i, errors >>
                  ELSE errors' = ContentErrors(s, resp2, errors) /\ NextServer

\* One pass of `for s in servers`.  (Every expected code of the table is 200,
\* 301 or 302, so a matching answer always takes one of the two branches.)
ProbeSite ==
    /\ pc = "sites"
    /\ i <= Len(servers)
    /\ probed' = Append(probed, SiteTarget(i))
    /\ \/ HeadRaises(servers[i])
       \/ \E resp \in HeadResponses(servers[i]) : HeadReturns(servers[i], resp)
    /\ UNCHANGED << ci, delete, store, j, remaining, rc, last, msg, k,
                    storeLog, smsCalls, slackCalls >>

(* ---------------------------------------------------------------------- *)
(* check_sites: the certificate loop                                      *)
(* ---------------------------------------------------------------------- *)

\* ssl_valid_time_remaining: expires - datetime.datetime.utcnow()
ssl_valid_time_remaining(expires, now) == timedelta(expires - now)

\* A faulty threshold: a certificate with no time left counts as expired.
SslErrors_ZeroExpired(host, rem, errs) ==
    IF ~td_lt(timedelta(0), rem)
    THEN AppendError(errs, FmtExpired(host))
    ELSE IF td_lt(rem, timedelta(3 * 86400))
    THEN AppendError(errs, FmtExpiring(host, rem.days))
    ELSE errs

\* The errors after the threshold checks on `remaining` for host.
SslErrors(host, rem, errs) ==
    IF td_lt(rem, timedelta(0))
    THEN AppendError(errs, FmtExpired(host))
    ELSE IF td_lt(rem, timedelta(3 * 86400))
    THEN AppendError(errs, FmtExpiring(host, rem.days))
    ELSE errs

\* One pass of `for s in ssl_hosts`.  ssl_expiry_datetime either returns the
\* expiry time or raises (connect, handshake, timeout, notAfter missing or
\* not parseable); nothing catches what it raises.
CheckSSL ==
    /\ pc = "ssl"
    /\ j <= Len(ssl_hosts)
    /\ probed' = Append(probed, SslTarget(j))
    /\ \/ /\ \E e \in SslExceptions : Crash(e)
          /\ UNCHANGED << j, errors, remaining >>
       \/ /\ \E expires \in Expiries, now \in Clock :
               remaining' = ssl_valid_time_remaining(expires, now)
          /\ errors' = SslErrors(ssl_hosts[j], remaining', errors)
          /\ j' = j + 1
          /\ pc' = IF j < Len(ssl_hosts) THEN "ssl" ELSE "return"
          /\ UNCHANGED << exc, exitCode >>
    /\ UNCHANGED << ci, delete, store, i, r, r2, rc, last, msg, k,
                    storeLog, smsCalls, slackCalls >>

\* return(errors), and in the main program rc = len(errors).
Return ==
    /\ pc = "return"
    /\ rc' = Len(errors)
    /\ r' = None /\ r2' = None /\ remaining' = None
    /\ pc' = IF ci THEN (IF delete THEN "s3_delete" ELSE "s3_get") ELSE "exit"
    /\ UNCHANGED << ci, delete, store, i, j, errors, probed, last, msg, k,
                    storeLog, smsCalls, slackCalls, exc, exitCode >>

(* ---------------------------------------------------------------------- *)
(* The main program in CI mode: state store, notification decision        *)
(* ---------------------------------------------------------------------- *)

\* The Twilio limit on one message body, in characters.
SmsLimit == 160

\* s3.delete(s3key), under --delete.  A failing call raises.
S3Delete ==
    /\ pc = "s3_delete"
    /\ storeLog' = Append(storeLog, "delete")
    /\ \/ /\ store' = None
          /\ pc' = "s3_get"
          /\ UNCHANGED << exc, exitCode >>
       \/ /\ Crash("S3Error")
          /\ UNCHANGED store
    /\ UNCHANGED << ci, delete, i, j, errors, r, r2, remaining, probed, rc,
                    last, msg, k, smsCalls, slackCalls >>

\* last = s3.get(s3key)
S3Get ==
    /\ pc = "s3_get"
    /\ storeLog' = Append(storeLog, "get")
    /\ \/ /\ last' = store
          /\ pc' = "s3_put"
          /\ UNCHANGED << exc, exitCode >>
       \/ /\ Crash("S3Error")
          /\ UNCHANGED last
    /\ UNCHANGED << ci, delete, store, i, j, errors, r, r2, remaining, probed,
                    rc, msg, k, smsCalls, slackCalls >>

\* The record of this run.
RunData(now) == [lastRun |-> now, version |-> 1, results |-> rc, errors |-> errors]

\* s3.put(s3key, data)
S3Put ==
    /\ pc = "s3_put"
    /\ storeLog' = Append(storeLog, "put")
    /\ \/ /\ \E now \in Clock : store' = RunData(now)
          /\ pc' = "decide"
          /\ UNCHANGED << exc, exitCode >>
       \/ /\ Crash("S3Error")
          /\ UNCHANGED store
    /\ UNCHANGED << ci, delete, i, j, errors, r, r2, remaining, probed, rc,
                    last, msg, k, smsCalls, slackCalls >>

\* Python truth of `last`: None is false, a stored record is true.
Truthy(x) == x # None

\* A faulty condition: the recovery case is left out.
ShouldNotify_NoRecovery(lst, errs) ==
    \/ ~Truthy(lst)
    \/ errs # <<>>

\* not last or errors or (not errors and last and last['results'] != 0)
ShouldNotify(lst, errs) ==
    \/ ~Truthy(lst)
    \/ errs # <<>>
    \/ errs = <<>> /\ Truthy(lst) /\ lst.results # 0

\* The list msg: "Sitecheck PASS", or the header and one entry per error.
BuildMessages(n, errs) ==
    IF n = 0
    THEN << "Sitecheck PASS" >>
    ELSE << "Sitecheck " \o ToString(n) \o " Errors:" >> \o errs

\* The `if` that gates the notifications, and the construction of msg.
Decide ==
    /\ pc = "decide"
    /\ IF ShouldNotify(last, errors)
       THEN /\ msg' = BuildMessages(rc, errors)
            /\ k' = 1
            /\ pc' = "sms"
       ELSE /\ pc' = "exit"
            /\ UNCHANGED << msg, k >>
    /\ UNCHANGED << ci, delete, store, i, j, errors, r, r2, remaining, probed,
                    rc, last, storeLog, smsCalls, slackCalls, exc, exitCode >>

(* ---------------------------------------------------------------------- *)
(* The senders                                                            *)
(* ---------------------------------------------------------------------- *)

\* One pass of `for m in messages` of send_sms_messages: the body handed to
\* client.messages.create is the list entry as it is.  A failing create
\* raises TwilioRestException, which nothing catches.
SendSms ==
    /\ pc = "sms"
    /\ k <= Len(msg)
    /\ smsCalls' = Append(smsCalls, msg[k])
    /\ \/ /\ k' = IF k < Len(msg) THEN k + 1 ELSE 1
          /\ pc' = IF k < Len(msg) THEN "sms" ELSE "slack"
          /\ UNCHANGED << exc, exitCode >>
       \/ /\ Crash("TwilioRestException")
          /\ UNCHANGED k
    /\ UNCHANGED << ci, delete, store, i, j, errors, r, r2, remaining, probed,
                    rc, last, msg, storeLog, slackCalls >>

\* One pass of `for m in messages` of send_slack_messages.  requests.post
\* returns a response whatever its status (the status is only printed), or
\* raises a RequestException, which nothing catches.
SendSlack ==
    /\ pc = "slack"
    /\ k <= Len(msg)
    /\ slackCalls' = Append(slackCalls, msg[k])
    /\ \/ /\ \E status \in {200, 500} : TRUE
          /\ k' = k + 1
          /\ pc' = IF k < Len(msg) THEN "slack" ELSE "exit"
          /\ UNCHANGED << exc, exitCode >>
       \/ /\ Crash("RequestException")
          /\ UNCHANGED k
    /\ UNCHANGED << ci, delete, store, i, j, errors, r, r2, remaining, probed,
                    rc, last, msg, storeLog, smsCalls >>

\* sys.exit(rc): the exit status is the low byte of rc.
Exit ==
    /\ pc = "exit"
    /\ exitCode' = rc % 256
    /\ pc' = "done"
    /\ UNCHANGED << ci, delete, store, i, j, errors, r, r2, remaining, probed,
                    rc, last, msg, k, storeLog, smsCalls, slackCalls, exc >>

Next ==
    \/ ProbeSite
    \/ CheckSSL
    \/ Return
    \/ S3Delete
    \/ S3Get
    \/ S3Put
    \/ Decide
    \/ SendSms
    \/ SendSlack
    \/ Exit

Spec == Init /\ [][Next]_vars

(* ---------------------------------------------------------------------- *)
(* Vocabulary of the properties                                           *)
(* ---------------------------------------------------------------------- *)

Sites == { SiteTarget(n) : n \in 1..Len(servers) }
Hosts == { SslTarget(n) : n \in 1..Len(ssl_hosts) }
Targets == Sites \cup Hosts

\* Every error string check_sites can produce about a target.
ErrorTexts(t) ==
    IF t.kind = "site"
    THEN LET s == servers[t.idx]
         IN  { FmtException(s, e) : e \in RequestExceptions }
             \cup { FmtCode(s, c) : c \in StatusCodes }
             \cup (IF s.code \in {301, 302}
                   THEN { FmtRedirect(s, l) : l \in Locations(s) }
                   ELSE { FmtContents(s) })
    ELSE { FmtExpired(ssl_hosts[t.idx]) }
         \cup { FmtExpiring(ssl_hosts[t.idx], d) : d \in 0..3 }

ErrorTextsOf == [t \in Targets |-> ErrorTexts(t)]

\* The positions of `errors` that are about target t, and their number.
ErrorsAbout(t) == { n \in DOMAIN errors : errors[n] \in ErrorTextsOf[t] }
ErrorCountOf(t) == Cardinality(ErrorsAbout(t))

\* The place of a target in the order of evaluation.
Rank(t) == IF t.kind = "site" THEN t.idx ELSE Len(servers) + t.idx

\* Whether an error string is about some target, and the place of the
\* target it is about.
AllErrorTexts == UNION { ErrorTextsOf[t] : t \in Targets }
RankTable == [e \in AllErrorTexts |-> Rank(CHOOSE t \in Targets : e \in ErrorTextsOf[t])]
IsAboutTarget(e) == e \in AllErrorTexts
RankOfError(e) == RankTable[e]

WasProbed(t) == \E n \in DOMAIN probed : probed[n] = t

LastProbed == probed[Len(probed)]

LastError == errors[Len(errors)]

\* requests.head raised for the server at position n.
HeadFailed(n) ==
    \E m \in DOMAIN errors, e \in RequestExceptions :
        errors[m] = FmtException(servers[n], e)

\* The server loop is over and the run did not die in it.
SitesDone ==
    \/ pc \in {"ssl", "return", "s3_delete", "s3_get", "s3_put", "decide",
               "sms", "slack", "exit", "done"}
    \/ pc = "crashed" /\ exc \notin {"KeyError", "Exception", "UnicodeDecodeError"}

\* check_sites has returned.
ChecksDone ==
    \/ pc \in {"return", "s3_delete", "s3_get", "s3_put", "decide", "sms",
               "slack", "exit", "done"}
    \/ pc = "crashed" /\ exc \in {"S3Error", "TwilioRestException", "RequestException"}

\* The process has ended.
Ended == pc \in {"done", "crashed"}

\* The run got past the `if` that gates the notifications.
Decided ==
    \/ pc \in {"sms", "slack"}
    \/ ci /\ pc \in {"exit", "done"}
    \/ pc = "crashed" /\ exc \in {"TwilioRestException", "RequestException"}

\* A notification is being sent or was sent.
Notifying == pc \in {"sms", "slack"} \/ smsCalls # <<>>

(* ---------------------------------------------------------------------- *)
(* Properties                                                             *)
(* ---------------------------------------------------------------------- *)

C2_NetworkFaultIsolation ==
    SitesDone =>
        \A n \in 1..Len(servers) :
            HeadFailed(n) =>
                /\ ErrorCountOf(SiteTarget(n)) = 1
                /\ \A m \in (n + 1)..Len(servers) : WasProbed(SiteTarget(m))

\* The state right after the pass of the server loop for position n in which
\* requests.head returned a response (r is that response).
AfterProbeWithResponse(n) ==
    /\ pc \in {"sites", "ssl"}
    /\ probed # <<>>
    /\ LastProbed = SiteTarget(n)
    /\ ~HeadFailed(n)

\* C3: after the probe of a server whose HEAD request returned a response,
\* that server has exactly one error when the status differs from the
\* expected code, or when the expected 301/302 came with a Location other
\* than the expected redirect, or when the expected 200 was followed by a GET
\* answering 200 whose body has no match for the expected contents; it has
\* no error when the code matches and the Location is the expected one or
\* the body has a match.
C3_ProbeVerdict ==
    \A n \in 1..Len(servers) :
        AfterProbeWithResponse(n) =>
            LET s == servers[n]
                count == ErrorCountOf(SiteTarget(n))
            IN  /\ r.status_code # s.code =>
                    count = 1 /\ LastError = FmtCode(s, r.status_code)
                /\ (r.status_code = s.code /\ s.code \in {301, 302}) =>
                    /\ "Location" \in DOMAIN r.headers
                    /\ r.headers["Location"] # s.redirect =>
                         count = 1 /\ LastError = FmtRedirect(s, r.headers["Location"])
                    /\ r.headers["Location"] = s.redirect => count = 0
                /\ (r.status_code = s.code /\ s.code = 200) =>
                    /\ r2.status_code = 200
                    /\ (\A f \in DOMAIN r2.content.text : r2.content.text[f] # s.contents) =>
                         count = 1 /\ LastError = FmtContents(s)
                    /\ (\E f \in DOMAIN r2.content.text : r2.content.text[f] = s.contents) =>
                         count = 0

\* C3 witness: a server expecting 200 answered 200 to HEAD and to GET with a
\* body that lacks the expected contents, and got its one error.
C3_Witness_ContentsMissing ==
    \E n \in 1..Len(servers) :
        /\ AfterProbeWithResponse(n)
        /\ servers[n].code = 200 /\ r.status_code = 200
        /\ r2.status_code = 200 /\ r2.content.text = << "Welcome" >>
        /\ ErrorCountOf(SiteTarget(n)) = 1

\* The remaining validity in seconds that a timedelta stands for.
TotalSeconds(td) == td.days * 86400 + td.seconds

\* The state right after the pass of the certificate loop for host n in which
\* the expiry time was retrieved (remaining is what was computed).
AfterSslCheck(n) ==
    /\ pc \in {"ssl", "return"}
    /\ probed # <<>>
    /\ LastProbed = SslTarget(n)
    /\ remaining # None

\* C4: after the check of a host whose expiry was retrieved: remaining < 0
\* gives one 'already expired' error; 0 <= remaining < 3 days gives one
\* 'expiring in <days> days' error; remaining >= 3 days gives none.  So 0 is
\* 'expiring', -1 second is 'expired' and exactly 3 days is healthy.
C4_CertificateThresholds ==
    \A n \in 1..Len(ssl_hosts) :
        AfterSslCheck(n) =>
            LET left == TotalSeconds(remaining)
                count == ErrorCountOf(SslTarget(n))
            IN  /\ left < 0 =>
                    count = 1 /\ LastError = FmtExpired(ssl_hosts[n])
                /\ (0 <= left /\ left < 259200) =>
                    count = 1 /\ LastError = FmtExpiring(ssl_hosts[n], left \div 86400)
                /\ left >= 259200 => count = 0

\* C4 witness: a certificate with exactly 0 seconds left was reported as
\* expiring in 0 days.
C4_Witness_ZeroRemaining ==
    \E n \in 1..Len(ssl_hosts) :
        /\ AfterSslCheck(n)
        /\ TotalSeconds(remaining) = 0
        /\ LastError = FmtExpiring(ssl_hosts[n], 0)

\* C5: once check_sites has returned, every entry of errors is about a
\* target of the lists and the entries follow the order of evaluation
\* (servers in list order, then hosts in list order); every host of
\* ssl_hosts was checked, in list order, after the servers; and the reported
\* count rc is the length of errors.
C5_ErrorsInEvaluationOrder ==
    ChecksDone =>
        /\ \A a \in DOMAIN errors : IsAboutTarget(errors[a])
        /\ \A a \in 1..(Len(errors) - 1) :
             RankOfError(errors[a]) <= RankOfError(errors[a + 1])
        /\ SelectSeq(probed, LAMBDA t : t.kind = "ssl")
             = [n \in 1..Len(ssl_hosts) |-> SslTarget(n)]
        /\ \A a, b \in DOMAIN probed : a < b => Rank(probed[a]) < Rank(probed[b])
        /\ pc # "return" => rc = Len(errors)

\* C5 witness: a finished run whose errors hold two server errors followed
\* by a host error.
C5_Witness_MixedErrors ==
    /\ pc = "done"
    /\ Len(errors) = 3
    /\ errors[1] \in ErrorTextsOf[SiteTarget(1)]
    /\ errors[2] \in ErrorTextsOf[SiteTarget(3)]
    /\ errors[3] \in ErrorTextsOf[SslTarget(2)]
    /\ exitCode = 3

\* C6: when retrieving the certificate expiry of a host fails, the run is
\* not ended by it: exactly one error is recorded for that host and, once
\* the loop is over, every host was checked.
C6_CertificateFailureRecovered ==
    exc \in SslExceptions =>
        /\ pc # "crashed"
        /\ ErrorCountOf(LastProbed) = 1
        /\ \A n \in 1..Len(ssl_hosts) : WasProbed(SslTarget(n))

\* The GET that followed a matching HEAD 200 did not answer 200.
GetInconsistent ==
    /\ r # None /\ r2 # None
    /\ r.status_code = 200
    /\ r2.status_code # 200

\* C7: when a HEAD 200 that matches the expected code is followed by a GET
\* that does not answer 200, the run is over with an uncaught exception: no
\* error was added for that server, nothing after that server was checked,
\* the state store was neither read nor written and nothing was sent.
C7_GetInconsistencyIsFatal ==
    GetInconsistent =>
        /\ pc = "crashed"
        /\ LastProbed.kind = "site"
        /\ servers[LastProbed.idx].code = 200
        /\ ErrorCountOf(LastProbed) = 0
        /\ Len(probed) = LastProbed.idx
        /\ storeLog = <<>>
        /\ smsCalls = <<>> /\ slackCalls = <<>>

\* C7 witness: a CI run that died on the GET of the third server with an
\* error of the first server already in the list.
C7_Witness_FatalGet ==
    /\ GetInconsistent
    /\ ci
    /\ pc = "crashed"
    /\ Len(probed) = 3
    /\ Len(errors) = 1

\* C8: in every run in which check_sites returned, the exit status is the
\* number of errors, also when a state store call failed.  (Runs ended by a
\* failing notification send are left to C9.)
C8_ExitCodeIsErrorCount ==
    (Ended /\ ChecksDone /\ exc \in {"none", "S3Error"}) => exitCode = Len(errors)

\* C9: when a notification was due, then by the end of the run every message
\* was attempted on both transports and the exit status is the number of
\* errors, whether or not a send failed.
C9_SendFailureNonFatal ==
    (Ended /\ msg # <<>>) =>
        /\ smsCalls = msg
        /\ slackCalls = msg
        /\ exitCode = Len(errors)

\* C10: the bodies handed to the SMS transport are the header with the error
\* count followed by the errors in their order, and every single body is
\* within the SMS length limit.
C10_SmsWithinLimit ==
    /\ \A c \in DOMAIN smsCalls : Len(smsCalls[c]) <= SmsLimit
    /\ (pc = "slack" /\ errors # <<>>) =>
         /\ smsCalls[1] = "Sitecheck " \o ToString(Len(errors)) \o " Errors:"
         /\ Tail(smsCalls) = errors

====
